---- MODULE Spec2Model ----
(***************************************************************************)
(* learnmolsim: Box, State, LennardJones, VelocityVerlet, Thermodynamics.  *)
(*                                                                         *)
(* Numbers: every float of the program is modelled by an integer (the      *)
(* inputs below are integer valued).  An optional attribute (None or an    *)
(* array) is a sequence of length at most one: <<>> is None, <<a>> is the  *)
(* array a.  An array of shape (N,3) is a sequence of N rows of length 3,  *)
(* an array of shape (N,) a sequence of N numbers.                         *)
(***************************************************************************)
EXTENDS Integers, Sequences, FiniteSets, TLC

\* -------------------------------------------------------------------------
\* Bounds
\* -------------------------------------------------------------------------
MaxCounter == 1

\* -------------------------------------------------------------------------
\* Values
\* -------------------------------------------------------------------------
None == <<>>
Some(a) == <<a>>
IsNone(x) == x = <<>>
Val(x) == x[1]

Axes == 1..3

\* numpy.zeros((n,3))
Zeros(n) == [i \in 1..n |-> <<0, 0, 0>>]

\* shape of a two-dimensional array (after numpy.array(value, ndmin=2))
Shape2(a) == IF Len(a) = 0 THEN <<0, 0>> ELSE <<Len(a), Len(a[1])>>

\* shape of a one-dimensional array (after numpy.array(value, ndmin=1))
Shape1(a) == <<Len(a)>>

\* A value as the caller passes it: a Python scalar, a (nested) list, or a
\* numpy.ndarray of dtype float64; ndim is its number of dimensions.
Scalar(x) == [kind |-> "scalar", ndim |-> 0, data |-> x]
List1(d) == [kind |-> "list", ndim |-> 1, data |-> d]
List2(d) == [kind |-> "list", ndim |-> 2, data |-> d]
NdArray1(d) == [kind |-> "ndarray", ndim |-> 1, data |-> d]
NdArray2(d) == [kind |-> "ndarray", ndim |-> 2, data |-> d]
NdArray2Int(d) == [kind |-> "ndarray_int32", ndim |-> 2, data |-> d]

\* numpy.array(value, ndmin=ndmin, copy=False, dtype=numpy.float64): leading
\* axes of length 1 are prepended up to ndmin dimensions; the data is copied
\* unless value already is a float64 ndarray (NumPy 1.x: copy only if needed)
\* numpy.array with its default copy=True: the data is always copied
np_array_copying(value, ndmin) ==
    LET data == IF value.ndim >= ndmin THEN value.data
                ELSE IF value.ndim + 1 = ndmin THEN <<value.data>>
                     ELSE <<<<value.data>>>>
    IN  [data |-> data,
         ndim |-> IF value.ndim >= ndmin THEN value.ndim ELSE ndmin,
         copied |-> TRUE]

np_array(value, ndmin) ==
    LET data == IF value.ndim >= ndmin THEN value.data
                ELSE IF value.ndim + 1 = ndmin THEN <<value.data>>
                     ELSE <<<<value.data>>>>
    IN  [data |-> data,
         ndim |-> IF value.ndim >= ndmin THEN value.ndim ELSE ndmin,
         copied |-> value.kind # "ndarray"]

\* ndarray.shape of an array of at most two dimensions
Shape(arr) ==
    IF arr.ndim = 0 THEN <<>>
    ELSE IF arr.ndim = 1 THEN Shape1(arr.data)
         ELSE Shape2(arr.data)

\* what a call leaves behind: the State after it, how it ended, what it returned
Result(s, outcome, ret) == [state |-> s, outcome |-> outcome, ret |-> ret]

\* -------------------------------------------------------------------------
\* Inputs
\* -------------------------------------------------------------------------
BoxIds == {1, 2}
NotABox == 0

\* the box whose edge lengths the driver reassigns (the one the State was
\* constructed with)
ReassignedBoxes == {1}

NInputs == {-1, 1, 2}

\* values assigned to Box.L
LInputs ==
    { Scalar(10), List1(<<10, 15, 20>>), List1(<<10, 15>>),
      List1(<<1, -2, 3>>), List1(<<10>>) }

MassInputs == {0, 1, 10}

CounterInputs ==
    [isint : {TRUE}, val : (-1)..MaxCounter] \cup {[isint |-> FALSE, val |-> 1]}

DtInputs == {-1, 0, 1}

PositionInputs ==
    { List2(<<<<0, 9, 5>>>>),
      List1(<<0, 9, 5>>),
      List2(<<<<1, 1, 1>>, <<2, 2, 2>>>>),
      List2(<<<<1, 2>>, <<3, 4>>>>) }

ImageInputs ==
    { List2(<<<<1, 2, 3>>>>),
      List2(<<<<1, 2, 3>>, <<4, 5, 6>>>>) }

VelocityInputs ==
    { None,
      Some(List2(<<<<-1, 2, 1>>>>)),
      Some(List2(<<<<1, -1, 1>>, <<-2, 2, -2>>>>)) }

EnergyInputs ==
    { None,
      Some(List1(<<3, -4>>)),
      Some(List2(<<<<1, 2>>, <<3, 4>>>>)) }

ForceInputs ==
    { None,
      Some(List2(<<<<10, -20, 30>>>>)),
      Some(List2(<<<<1, 2, 3>>, <<-1, -2, -3>>>>)) }

ConstantPotential(f) == [kind |-> "ConstantPotential", f |-> f]

LennardJones(epsilon, sigma, rcut, shift) ==
    [kind |-> "LennardJones", epsilon |-> epsilon, sigma |-> sigma,
     rcut |-> rcut, shift |-> shift]

LJInputs == { LennardJones(1, 1, 2, FALSE), LennardJones(1, 1, 2, TRUE) }

PotentialInputs ==
    { ConstantPotential(<<0, 0, 0>>),
      ConstantPotential(<<10, -20, 30>>),
      LennardJones(1, 1, 2, FALSE) }

\* (position, image) pairs handed to Box.wrap, each a single 3-vector
WrapInputs ==
    { << <<11, -1, 18>>, <<0, 0, 0>> >>,
      << <<30, 30, 30>>, <<1, 2, 3>> >>,
      << <<-25, 5, -1>>, <<4, 5, 6>> >> }

\* the arrays and lists the driver creates and later assigns to attributes of
\* the State or modifies in place
CallerArrays ==
    { List2(<<<<1, 1, 1>>, <<2, 2, 2>>>>),
      NdArray2(<<<<1, 1, 1>>, <<2, 2, 2>>>>),
      NdArray2(<<<<0, 9, 5>>>>),
      NdArray1(<<3, -4>>) }

\* the row, or the element of a one-dimensional array, written in place
NewRow == <<2, 3, 4>>
NewElement == 7

\* single 3-vectors handed to Box.minimum_image
VectorInputs == { <<7, -13, 15>>, <<-14, 30, 45>> }

\* squared separations handed to LennardJones.energy_force
RsqInputs == {0, 4, 9}

\* -------------------------------------------------------------------------
\* State of the program
\* -------------------------------------------------------------------------
VARIABLES
    boxes,    \* the Box objects: boxes[b] is Box._L of box b
    state,    \* the State object; state.box names a Box (a reference)
    ig,       \* the VelocityVerlet object: _dt and potential
    last,     \* the most recent call: operation, arguments, outcome, result
    caller    \* the array object x the driver holds: arr; alias, the State
              \* attributes that are this very object; from, the attributes
              \* whose value was assigned from x

vars == <<boxes, state, ig, last, caller>>

Call(op, args, outcome, ret) ==
    [op |-> op, args |-> args, outcome |-> outcome, ret |-> ret]

\* the caller's object after an assignment that stored a copy (or None) in
\* the attribute: the attribute is no longer the caller's object
AliasAfterCopy(attr, outcome) ==
    IF outcome # "ok" THEN caller
    ELSE [caller EXCEPT !.alias = @ \ {attr}, !.from = @ \ {attr}]

\* -------------------------------------------------------------------------
\* Box
\* -------------------------------------------------------------------------
\* Box.L setter: returns the new _L, or the old one with the error raised
\* a Box.L setter without the sign check
Box_L_setter_unsigned(old, value) ==
    LET v == np_array(value, 1)
        L == IF Shape(v) = <<1>> THEN <<v.data[1], v.data[1], v.data[1]>>
             ELSE v.data
    IN  IF Shape(v) # <<1>> /\ Shape(v) # <<3>>
        THEN [L |-> old, outcome |-> "TypeError"]
        ELSE [L |-> L, outcome |-> "ok"]

Box_L_setter(old, value) ==
    LET v == np_array(value, 1)
        L == IF Shape(v) = <<1>> THEN <<v.data[1], v.data[1], v.data[1]>>
             ELSE v.data
    IN  IF Shape(v) # <<1>> /\ Shape(v) # <<3>>
        THEN [L |-> old, outcome |-> "TypeError"]
        ELSE IF \E a \in Axes : L[a] <= 0
             THEN [L |-> old, outcome |-> "ValueError"]
             ELSE [L |-> L, outcome |-> "ok"]

\* Box.__init__: self.L = L, through the setter
Box_init(value) == Box_L_setter(None, value)

Box_volume(L) == [outcome |-> "NotImplementedError", ret |-> None]

Box_wrap(L, position, image) ==
    [outcome |-> "NotImplementedError", ret |-> None]

Box_minimum_image(L, vector) ==
    [outcome |-> "NotImplementedError", ret |-> None]

\* -------------------------------------------------------------------------
\* State
\* -------------------------------------------------------------------------
\* a box setter that validates and then forgets to store the reference
State_box_setter_forgetful(s, value) ==
    IF value \notin BoxIds THEN Result(s, "TypeError", None)
    ELSE Result(s, "ok", None)

State_box_setter(s, value) ==
    IF value \notin BoxIds THEN Result(s, "TypeError", None)
    ELSE Result([s EXCEPT !.box = value], "ok", None)

State_mass_setter(s, value) ==
    IF value <= 0 THEN Result(s, "ValueError", None)
    ELSE Result([s EXCEPT !.mass = value], "ok", None)

\* a counter setter without the isinstance check
State_counter_setter_unchecked(s, value) ==
    Result([s EXCEPT !.counter = value.val], "ok", None)

State_counter_setter(s, value) ==
    IF ~value.isint THEN Result(s, "TypeError", None)
    ELSE Result([s EXCEPT !.counter = value.val], "ok", None)

State_positions_setter(s, value) ==
    LET r == np_array(value, 2)
    IN  IF Shape(r) # <<s.N, 3>> THEN Result(s, "TypeError", None)
        ELSE Result([s EXCEPT !.positions = r.data], "ok", None)

State_images_setter(s, value) ==
    LET im == np_array(value, 2)
    IN  IF Shape(im) # <<s.N, 3>> THEN Result(s, "TypeError", None)
        ELSE Result([s EXCEPT !.images = im.data], "ok", None)

State_velocities_setter(s, value) ==
    IF IsNone(value) THEN Result([s EXCEPT !.velocities = None], "ok", None)
    ELSE LET v == np_array(Val(value), 2)
         IN  IF Shape(v) # <<s.N, 3>> THEN Result(s, "TypeError", None)
             ELSE Result([s EXCEPT !.velocities = Some(v.data)], "ok", None)

\* an energies setter without the shape check
State_energies_setter_unchecked(s, value) ==
    IF IsNone(value) THEN Result([s EXCEPT !.energies = None], "ok", None)
    ELSE Result([s EXCEPT !.energies = Some(np_array(Val(value), 1).data)],
                "ok", None)

State_energies_setter(s, value) ==
    IF IsNone(value) THEN Result([s EXCEPT !.energies = None], "ok", None)
    ELSE LET e == np_array(Val(value), 1)
         IN  IF Shape(e) # <<s.N>> THEN Result(s, "TypeError", None)
             ELSE Result([s EXCEPT !.energies = Some(e.data)], "ok", None)

\* a forces setter that stores the array before looking at its shape
State_forces_setter_unvalidated(s, value) ==
    IF IsNone(value) THEN Result([s EXCEPT !.forces = None], "ok", None)
    ELSE LET f == np_array(Val(value), 2)
         IN  IF Shape(f) # <<s.N, 3>>
             THEN Result([s EXCEPT !.forces = Some(f.data)], "TypeError", None)
             ELSE Result([s EXCEPT !.forces = Some(f.data)], "ok", None)

State_forces_setter(s, value) ==
    IF IsNone(value) THEN Result([s EXCEPT !.forces = None], "ok", None)
    ELSE LET f == np_array(Val(value), 2)
         IN  IF Shape(f) # <<s.N, 3>> THEN Result(s, "TypeError", None)
             ELSE Result([s EXCEPT !.forces = Some(f.data)], "ok", None)

\* State.__init__: the check of N, then one assignment after the other, each
\* through its setter; the first exception ends the construction and leaves no
\* object behind
State_init(N, box, mass, counter) ==
    LET s0 == [N |-> N, box |-> NotABox, mass |-> None, counter |-> None,
               positions |-> None, images |-> None,
               velocities |-> None, energies |-> None, forces |-> None]
        s1 == State_box_setter(s0, box)
        s2 == State_mass_setter(s1.state, mass)
        s3 == State_counter_setter(s2.state, counter)
        s4 == State_positions_setter(s3.state, NdArray2(Zeros(N)))
        s5 == State_images_setter(s4.state, NdArray2Int(Zeros(N)))
        s6 == State_velocities_setter(s5.state, None)
        s7 == State_energies_setter(s6.state, None)
        s8 == State_forces_setter(s7.state, None)
    IN  IF N < 0 THEN Result(s0, "ValueError", None)
        ELSE IF s1.outcome # "ok" THEN Result(s0, s1.outcome, None)
        ELSE IF s2.outcome # "ok" THEN Result(s0, s2.outcome, None)
        ELSE IF s3.outcome # "ok" THEN Result(s0, s3.outcome, None)
        ELSE IF s4.outcome # "ok" THEN Result(s0, s4.outcome, None)
        ELSE IF s5.outcome # "ok" THEN Result(s0, s5.outcome, None)
        ELSE IF s6.outcome # "ok" THEN Result(s0, s6.outcome, None)
        ELSE IF s7.outcome # "ok" THEN Result(s0, s7.outcome, None)
        ELSE s8

\* -------------------------------------------------------------------------
\* Potentials
\* -------------------------------------------------------------------------
LennardJones_energy_force(lj, rsq) ==
    [outcome |-> "NotImplementedError", ret |-> None]

\* a compute that writes its (zeroed) accumulators into the State before failing
LennardJones_compute_storing(lj, s) ==
    Result([s EXCEPT !.energies = Some([i \in 1..s.N |-> 0]),
                     !.forces = Some(Zeros(s.N))],
           "NotImplementedError", None)

LennardJones_compute(lj, s) == Result(s, "NotImplementedError", None)

\* the test double of tests/test_velocity_verlet.py
ConstantPotential_compute(p, s) ==
    LET u == [i \in 1..s.N |->
                 0 - (p.f[1] * s.positions[i][1] + p.f[2] * s.positions[i][2]
                      + p.f[3] * s.positions[i][3])]
        f == [i \in 1..s.N |-> p.f]
    IN  Result(s, "ok", [u |-> u, f |-> f])

\* potential.compute(state), dispatched on the class of the potential
Potential_compute(p, s) ==
    IF p.kind = "LennardJones" THEN LennardJones_compute(p, s)
    ELSE ConstantPotential_compute(p, s)

\* -------------------------------------------------------------------------
\* VelocityVerlet
\* -------------------------------------------------------------------------
\* a dt setter without the sign check
VelocityVerlet_dt_setter_unchecked(g, value) ==
    [ig |-> [g EXCEPT !.dt = value], outcome |-> "ok"]

VelocityVerlet_dt_setter(g, value) ==
    IF value < 0 THEN [ig |-> g, outcome |-> "ValueError"]
    ELSE [ig |-> [g EXCEPT !.dt = value], outcome |-> "ok"]

\* VelocityVerlet.__init__: self.dt = dt (through the setter), then
\* self.potential = potential; an exception leaves no object behind
VelocityVerlet_init(dt, potential) ==
    LET r == VelocityVerlet_dt_setter([dt |-> None, potential |-> None], dt)
    IN  IF r.outcome # "ok" THEN r
        ELSE [ig |-> [r.ig EXCEPT !.potential = potential], outcome |-> "ok"]

VelocityVerlet_advance(g, s) == Result(s, "NotImplementedError", None)

\* -------------------------------------------------------------------------
\* Thermodynamics
\* -------------------------------------------------------------------------
Thermodynamics_kinetic_energy(s) == Result(s, "NotImplementedError", None)

Thermodynamics_potential_energy(s) == Result(s, "NotImplementedError", None)

Thermodynamics_kT(s) == Result(s, "NotImplementedError", None)

\* a pressure that reads an unset field as zero instead of failing
Thermodynamics_pressure_silent_zero(s) ==
    IF IsNone(s.velocities) \/ IsNone(s.forces) THEN Result(s, "ok", 0)
    ELSE Result(s, "NotImplementedError", None)

Thermodynamics_pressure(s) == Result(s, "NotImplementedError", None)

\* -------------------------------------------------------------------------
\* Initial state: two boxes, a State in box 1, an integrator
\* -------------------------------------------------------------------------
Init ==
    /\ \E value \in LInputs :
          /\ Box_init(value).outcome = "ok"
          /\ boxes = [b \in BoxIds |->
                         IF b = 1 THEN Box_init(value).L
                         ELSE Box_init(List1(<<10, 15, 20>>)).L]
    /\ \E N \in NInputs, box \in {1, NotABox}, mass \in MassInputs,
          counter \in CounterInputs :
          LET r == State_init(N, box, mass, counter)
          IN  r.outcome = "ok" /\ state = r.state
    /\ \E dt \in DtInputs :
          LET r == VelocityVerlet_init(dt, ConstantPotential(<<0, 0, 0>>))
          IN  r.outcome = "ok" /\ ig = r.ig
    /\ last = Call("init", <<>>, "ok", None)
    /\ caller = [arr |-> List2(<<<<1, 1, 1>>, <<2, 2, 2>>>>), alias |-> {},
                 from |-> {}]

\* -------------------------------------------------------------------------
\* Actions: one per operation a driver can invoke
\* -------------------------------------------------------------------------
SetBoxL ==
    \E b \in ReassignedBoxes, value \in LInputs :
        LET r == Box_L_setter(boxes[b], value)
        IN  /\ boxes' = [boxes EXCEPT ![b] = r.L]
            /\ last' = Call("Box.L", <<b, value>>, r.outcome, None)
            /\ UNCHANGED <<state, ig, caller>>

SetStateBox ==
    \E value \in BoxIds \cup {NotABox} :
        LET r == State_box_setter(state, value)
        IN  /\ state' = r.state
            /\ last' = Call("State.box", <<value>>, r.outcome, None)
            /\ UNCHANGED <<boxes, ig, caller>>

SetMass ==
    \E value \in MassInputs :
        LET r == State_mass_setter(state, value)
        IN  /\ state' = r.state
            /\ last' = Call("State.mass", <<value>>, r.outcome, None)
            /\ UNCHANGED <<boxes, ig, caller>>

SetCounter ==
    \E value \in CounterInputs :
        LET r == State_counter_setter(state, value)
        IN  /\ state' = r.state
            /\ last' = Call("State.counter", <<value>>, r.outcome, None)
            /\ UNCHANGED <<boxes, ig, caller>>

SetPositions ==
    \E value \in PositionInputs :
        LET r == State_positions_setter(state, value)
        IN  /\ state' = r.state
            /\ last' = Call("State.positions", <<value>>, r.outcome, None)
            /\ caller' = AliasAfterCopy("positions", r.outcome)
            /\ UNCHANGED <<boxes, ig>>

SetImages ==
    \E value \in ImageInputs :
        LET r == State_images_setter(state, value)
        IN  /\ state' = r.state
            /\ last' = Call("State.images", <<value>>, r.outcome, None)
            /\ caller' = AliasAfterCopy("images", r.outcome)
            /\ UNCHANGED <<boxes, ig>>

SetVelocities ==
    \E value \in VelocityInputs :
        LET r == State_velocities_setter(state, value)
        IN  /\ state' = r.state
            /\ last' = Call("State.velocities", <<value>>, r.outcome, None)
            /\ caller' = AliasAfterCopy("velocities", r.outcome)
            /\ UNCHANGED <<boxes, ig>>

SetEnergies ==
    \E value \in EnergyInputs :
        LET r == State_energies_setter(state, value)
        IN  /\ state' = r.state
            /\ last' = Call("State.energies", <<value>>, r.outcome, None)
            /\ caller' = AliasAfterCopy("energies", r.outcome)
            /\ UNCHANGED <<boxes, ig>>

SetForces ==
    \E value \in ForceInputs :
        LET r == State_forces_setter(state, value)
        IN  /\ state' = r.state
            /\ last' = Call("State.forces", <<value>>, r.outcome, None)
            /\ caller' = AliasAfterCopy("forces", r.outcome)
            /\ UNCHANGED <<boxes, ig>>

SetDt ==
    \E value \in DtInputs :
        LET r == VelocityVerlet_dt_setter(ig, value)
        IN  /\ ig' = r.ig
            /\ last' = Call("VelocityVerlet.dt", <<value>>, r.outcome, None)
            /\ UNCHANGED <<boxes, state, caller>>

SetPotential ==
    \E p \in PotentialInputs :
        /\ ig' = [ig EXCEPT !.potential = p]
        /\ last' = Call("VelocityVerlet.potential", <<p>>, "ok", None)
        /\ UNCHANGED <<boxes, state, caller>>

Volume ==
    LET r == Box_volume(boxes[state.box])
    IN  /\ last' = Call("volume", <<>>, r.outcome, r.ret)
        /\ UNCHANGED <<boxes, state, ig, caller>>

Wrap ==
    \E arg \in WrapInputs :
        LET r == Box_wrap(boxes[state.box], arg[1], arg[2])
        IN  /\ last' = Call("wrap", arg, r.outcome, r.ret)
            /\ UNCHANGED <<boxes, state, ig, caller>>

MinimumImage ==
    \E vector \in VectorInputs :
        LET r == Box_minimum_image(boxes[state.box], vector)
        IN  /\ last' = Call("minimum_image", <<vector>>, r.outcome, r.ret)
            /\ UNCHANGED <<boxes, state, ig, caller>>

EnergyForce ==
    \E lj \in LJInputs, rsq \in RsqInputs :
        LET r == LennardJones_energy_force(lj, rsq)
        IN  /\ last' = Call("energy_force", <<lj, rsq>>, r.outcome, r.ret)
            /\ UNCHANGED <<boxes, state, ig, caller>>

Compute ==
    LET r == Potential_compute(ig.potential, state)
    IN  /\ state' = r.state
        /\ last' = Call("compute", <<>>, r.outcome, r.ret)
        /\ UNCHANGED <<boxes, ig, caller>>

Advance ==
    LET r == VelocityVerlet_advance(ig, state)
    IN  /\ state' = r.state
        /\ last' = Call("advance", <<>>, r.outcome, r.ret)
        /\ UNCHANGED <<boxes, ig, caller>>

KineticEnergy ==
    LET r == Thermodynamics_kinetic_energy(state)
    IN  /\ state' = r.state
        /\ last' = Call("kinetic_energy", <<>>, r.outcome, r.ret)
        /\ UNCHANGED <<boxes, ig, caller>>

PotentialEnergy ==
    LET r == Thermodynamics_potential_energy(state)
    IN  /\ state' = r.state
        /\ last' = Call("potential_energy", <<>>, r.outcome, r.ret)
        /\ UNCHANGED <<boxes, ig, caller>>

KT ==
    LET r == Thermodynamics_kT(state)
    IN  /\ state' = r.state
        /\ last' = Call("kT", <<>>, r.outcome, r.ret)
        /\ UNCHANGED <<boxes, ig, caller>>

Pressure ==
    LET r == Thermodynamics_pressure(state)
    IN  /\ state' = r.state
        /\ last' = Call("pressure", <<>>, r.outcome, r.ret)
        /\ UNCHANGED <<boxes, ig, caller>>

Next ==
    \/ SetBoxL
    \/ SetStateBox
    \/ SetMass
    \/ SetCounter
    \/ SetPositions
    \/ SetImages
    \/ SetVelocities
    \/ SetEnergies
    \/ SetForces
    \/ SetDt
    \/ SetPotential
    \/ Volume
    \/ Wrap
    \/ MinimumImage
    \/ EnergyForce
    \/ Compute
    \/ Advance
    \/ KineticEnergy
    \/ PotentialEnergy
    \/ KT
    \/ Pressure

Spec == Init /\ [][Next]_vars

\* -------------------------------------------------------------------------
\* The driver's own arrays: assignment of an array object to an attribute
\* and in-place modification of the object afterwards
\* -------------------------------------------------------------------------
AttrNames == {"positions", "images", "velocities", "energies", "forces"}
OptionalAttrs == {"velocities", "energies", "forces"}

\* ndmin of the numpy.array call in the setter of attr
Ndmin(attr) == IF attr = "energies" THEN 1 ELSE 2

\* is the attribute set, and the array it holds
IsSet(s, attr) == attr \notin OptionalAttrs \/ ~IsNone(s[attr])
GetData(s, attr) == IF attr \in OptionalAttrs THEN Val(s[attr]) ELSE s[attr]
PutData(s, attr, d) ==
    [s EXCEPT ![attr] = IF attr \in OptionalAttrs THEN Some(d) ELSE d]

\* state.<attr> = value
State_setattr(s, attr, value) ==
    CASE attr = "positions"  -> State_positions_setter(s, value)
      [] attr = "images"     -> State_images_setter(s, value)
      [] attr = "velocities" -> State_velocities_setter(s, Some(value))
      [] attr = "energies"   -> State_energies_setter(s, Some(value))
      [] attr = "forces"     -> State_forces_setter(s, Some(value))

\* x.tolist(): a list with the elements of x
ToList(arr) == [arr EXCEPT !.kind = "list"]

\* an in-place write into an array object shows in every attribute that is
\* this object
WriteThrough(s, attrs, d) ==
    [a \in DOMAIN s |-> IF a \in attrs THEN PutData(s, a, d)[a] ELSE s[a]]

\* x = numpy.array(...) or x = [...]: the driver binds x to a new object
NewCallerArray ==
    \E arr \in CallerArrays :
        /\ caller.alias = {}
        /\ caller' = [arr |-> arr, alias |-> {}, from |-> {}]
        /\ last' = Call("x = array", <<arr>>, "ok", None)
        /\ UNCHANGED <<boxes, state, ig>>

\* state.<attr> = x, or state.<attr> = x.tolist()
AssignCallerArray ==
    \E attr \in AttrNames, value \in {caller.arr, ToList(caller.arr)} :
        LET r == State_setattr(state, attr, value)
        IN  /\ state' = r.state
            /\ caller' =
                  IF r.outcome # "ok" THEN caller
                  ELSE IF value # caller.arr
                       THEN AliasAfterCopy(attr, r.outcome)
                  ELSE IF np_array(value, Ndmin(attr)).copied
                       THEN [caller EXCEPT !.alias = @ \ {attr},
                                           !.from = @ \cup {attr}]
                       ELSE [caller EXCEPT !.alias = @ \cup {attr},
                                           !.from = @ \cup {attr}]
            /\ last' = Call("State." \o attr,
                            <<IF attr \in OptionalAttrs THEN Some(value)
                              ELSE value>>,
                            r.outcome, None)
            /\ UNCHANGED <<boxes, ig>>

\* x[0] = v
ModifyCaller ==
    LET new == IF caller.arr.ndim = 1 THEN NewElement ELSE NewRow
        d   == [caller.arr.data EXCEPT ![1] = new]
    IN  /\ caller' = [caller EXCEPT !.arr.data = d]
        /\ state' = WriteThrough(state, caller.alias, d)
        /\ last' = Call("x[0] = v", <<new>>, "ok", None)
        /\ UNCHANGED <<boxes, ig>>

\* state.<attr>[0] = v
ModifyState ==
    \E attr \in AttrNames :
        /\ IsSet(state, attr)
        /\ LET new == IF attr = "energies" THEN NewElement ELSE NewRow
               d   == [GetData(state, attr) EXCEPT ![1] = new]
           IN  IF attr \in caller.alias
               THEN /\ caller' = [caller EXCEPT !.arr.data = d]
                    /\ state' = WriteThrough(state, caller.alias, d)
               ELSE /\ caller' = caller
                    /\ state' = PutData(state, attr, d)
        /\ last' = Call("state.attr[0] = v", <<attr>>, "ok", None)
        /\ UNCHANGED <<boxes, ig>>

\* one State of two particles in a cubic box
InitOwn ==
    /\ Init
    /\ state.N = 2
    /\ state.mass = 1
    /\ state.counter = 0
    /\ boxes[1] = <<10, 10, 10>>
    /\ ig.dt = 1

NextOwn ==
    \/ NewCallerArray
    \/ AssignCallerArray
    \/ ModifyCaller
    \/ ModifyState

SpecOwn == InitOwn /\ [][NextOwn]_vars

\* -------------------------------------------------------------------------
\* Arithmetic used to state the properties
\* -------------------------------------------------------------------------
RECURSIVE SumSeq(_)
SumSeq(q) == IF Len(q) = 0 THEN 0 ELSE q[1] + SumSeq(Tail(q))

Dot(x, y) == x[1] * y[1] + x[2] * y[2] + x[3] * y[3]

Abs(x) == IF x < 0 THEN 0 - x ELSE x

\* sum over the particles of |v_i|^2
SumSq(v) == SumSeq([i \in 1..Len(v) |-> Dot(v[i], v[i])])

\* sum over the particles of r_i . F_i
Virial(r, f) == SumSeq([i \in 1..Len(r) |-> Dot(r[i], f[i])])

\* the box the State refers to
StateL == boxes[state.box]

\* velocities with None read as zero
VelOrZero(s) == IF IsNone(s.velocities) THEN Zeros(s.N) ELSE Val(s.velocities)

Inf == "inf"

QueryOps == {"kinetic_energy", "potential_energy", "kT", "pressure"}

\* -------------------------------------------------------------------------
\* Properties
\* -------------------------------------------------------------------------

\* C1: every call of VelocityVerlet.advance increases state.counter by
\* exactly 1, so k successive calls take the counter from c to c + k.
C1_AdvanceIncrementsCounter ==
    [][last'.op = "advance" => state'.counter = state.counter + 1]_vars

\* C2: with a potential that returns the same force F on every particle and
\* forces unset or equal to F, one advance changes each velocity by dt*F/m and
\* each position by dt*v + (dt^2/(2m))*F modulo the box (stated multiplied
\* through by m and by 2m).
C2_ConstantForceStep ==
    [][( /\ last'.op = "advance"
         /\ ig.potential.kind = "ConstantPotential"
         /\ \/ IsNone(state.forces)
            \/ Val(state.forces) = [i \in 1..state.N |-> ig.potential.f] )
       =>
       /\ last'.outcome = "ok"
       /\ ~IsNone(state'.velocities)
       /\ \A i \in 1..state.N, a \in Axes :
             LET m  == state.mass
                 dt == ig.dt
                 F  == ig.potential.f[a]
                 v  == VelOrZero(state)[i][a]
                 x  == state.positions[i][a]
                 v1 == Val(state'.velocities)[i][a]
                 x1 == state'.positions[i][a]
             IN  /\ m * (v1 - v) = dt * F
                 /\ (2 * m * (x1 - x) - 2 * m * dt * v - dt * dt * F)
                       % (2 * m * StateL[a]) = 0]_vars

\* C3: advance accepts a state whose velocities and/or forces are unset, and
\* after it state.velocities is a populated (N,3) array and the forces the
\* kicks used exist.
C3_AdvanceAcceptsUnset ==
    [][( /\ last'.op = "advance"
         /\ (IsNone(state.velocities) \/ IsNone(state.forces)) )
       =>
       /\ last'.outcome = "ok"
       /\ ~IsNone(state'.velocities)
       /\ Shape2(Val(state'.velocities)) = <<state.N, 3>>
       /\ ~IsNone(state'.forces)]_vars

\* C4: Box.wrap returns per axis x - floor(x/L)*L, which lies in [0, L), and
\* image + floor(x/L), so that wrapped + L*image_out = x + L*image_in.
C4_WrapFloor ==
    last.op = "wrap" =>
       /\ last.outcome = "ok"
       /\ \A a \in Axes :
             LET x     == last.args[1][a]
                 im    == last.args[2][a]
                 shift == x \div StateL[a]
             IN  /\ last.ret.position[a] = x - shift * StateL[a]
                 /\ last.ret.position[a] >= 0
                 /\ last.ret.position[a] < StateL[a]
                 /\ last.ret.image[a] = im + shift
                 /\ last.ret.position[a] + StateL[a] * last.ret.image[a]
                       = x + StateL[a] * im

\* C5: Box.minimum_image returns a vector that differs from its input by an
\* integer multiple of L on each axis and has every |component| <= L/2.
C5_MinimumImageBound ==
    last.op = "minimum_image" =>
       /\ last.outcome = "ok"
       /\ \A a \in Axes :
             /\ (last.ret[a] - last.args[1][a]) % StateL[a] = 0
             /\ 2 * Abs(last.ret[a]) <= StateL[a]

\* C6: the per-particle forces returned by LennardJones.compute sum to the
\* zero vector.
C6_ForcesSumToZero ==
    (last.op = "compute" /\ ig.potential.kind = "LennardJones") =>
       /\ last.outcome = "ok"
       /\ \A a \in Axes :
             SumSeq([i \in 1..state.N |-> last.ret.f[i][a]]) = 0

\* the pair energy compute is to use for particles i and j: energy_force at the
\* squared norm of the minimum image of r_j - r_i
PairEnergy(lj, i, j) ==
    LET d  == [a \in Axes |-> state.positions[j][a] - state.positions[i][a]]
        dr == Box_minimum_image(StateL, d).ret
    IN  LennardJones_energy_force(lj, Dot(dr, dr)).ret.u

\* C7: LennardJones.compute assigns half of each pair energy to either
\* particle, so the returned energies sum to the sum of u over the unordered
\* pairs i < j (stated as: twice the sum is the sum over the ordered pairs).
C7_EnergiesSumOverPairs ==
    (last.op = "compute" /\ ig.potential.kind = "LennardJones") =>
       /\ last.outcome = "ok"
       /\ 2 * SumSeq(last.ret.u) =
             SumSeq([i \in 1..state.N |->
                SumSeq([j \in 1..state.N |->
                   IF i = j THEN 0 ELSE PairEnergy(ig.potential, i, j)])])

\* C8: LennardJones.energy_force returns (+inf, +inf) at rsq = 0, (0, 0) for
\* r > rcut, and at r = rcut the unshifted energy 4 eps [(s/r)^12 - (s/r)^6]
\* without shift and exactly 0 with shift.
C8_EnergyForceCases ==
    last.op = "energy_force" =>
       LET lj  == last.args[1]
           rsq == last.args[2]
           rc2 == lj.rcut * lj.rcut
           s6  == lj.sigma * lj.sigma * lj.sigma * lj.sigma * lj.sigma * lj.sigma
           r6  == rsq * rsq * rsq
       IN  /\ last.outcome = "ok"
           /\ rsq = 0 => (last.ret.u = Inf /\ last.ret.f = Inf)
           /\ rsq > rc2 => (last.ret.u = 0 /\ last.ret.f = 0)
           /\ (rsq = rc2 /\ lj.shift) => last.ret.u = 0
           /\ (rsq = rc2 /\ ~lj.shift) =>
                 last.ret.u * r6 * r6 = 4 * lj.epsilon * (s6 * s6 - s6 * r6)

\* C9: LennardJones.compute and the four Thermodynamics queries leave the
\* State (positions, images, velocities, energies, forces, mass, box, counter)
\* and the boxes as they were, whether the call succeeds or fails.
C9_QueriesLeaveStateUnchanged ==
    [][( \/ last'.op \in QueryOps
         \/ (last'.op = "compute" /\ ig.potential.kind = "LennardJones") )
       => (state' = state /\ boxes' = boxes)]_vars

\* a compute on a fully populated State, after a counter assignment
C9_Witness ==
    /\ last.op = "compute"
    /\ ig.potential.kind = "LennardJones"
    /\ ~IsNone(state.velocities)
    /\ ~IsNone(state.energies)
    /\ ~IsNone(state.forces)
    /\ state.counter = 1
    /\ state.mass = 10

\* C10: kinetic_energy = sum (1/2) m |v_i|^2, potential_energy = sum of
\* state.energies, kT = 2 kinetic_energy / (3N), pressure = N kT / V +
\* (1/(3V)) sum r_i . F_i from the stored positions and forces (each stated
\* multiplied through by its denominator).
C10_ThermodynamicsFormulas ==
    /\ (last.op = "kinetic_energy" /\ ~IsNone(state.velocities)) =>
          /\ last.outcome = "ok"
          /\ 2 * last.ret = state.mass * SumSq(Val(state.velocities))
    /\ (last.op = "potential_energy" /\ ~IsNone(state.energies)) =>
          /\ last.outcome = "ok"
          /\ last.ret = SumSeq(Val(state.energies))
    /\ (last.op = "kT" /\ ~IsNone(state.velocities)) =>
          /\ last.outcome = "ok"
          /\ 3 * state.N * last.ret = state.mass * SumSq(Val(state.velocities))
    /\ (last.op = "pressure" /\ ~IsNone(state.velocities)
                             /\ ~IsNone(state.forces)) =>
          /\ last.outcome = "ok"
          /\ 3 * StateL[1] * StateL[2] * StateL[3] * last.ret =
                state.mass * SumSq(Val(state.velocities))
                + Virial(state.positions, Val(state.forces))

\* C11: a Thermodynamics query on a State in which a field it needs is unset
\* (velocities for kinetic_energy, kT and pressure, energies for
\* potential_energy, forces for pressure) ends with an exception, never with a
\* returned value.
C11_UnsetFieldFails ==
    /\ (last.op \in {"kinetic_energy", "kT", "pressure"}
          /\ IsNone(state.velocities)) => last.outcome # "ok"
    /\ (last.op = "potential_energy" /\ IsNone(state.energies))
          => last.outcome # "ok"
    /\ (last.op = "pressure" /\ IsNone(state.forces)) => last.outcome # "ok"

\* pressure asked of a State with velocities but without forces
C11_Witness ==
    /\ last.op = "pressure"
    /\ ~IsNone(state.velocities)
    /\ IsNone(state.forces)
    /\ last.outcome = "NotImplementedError"

\* C12: assigning a negative value to VelocityVerlet.dt raises ValueError and
\* leaves the stored dt as it was; the stored dt is >= 0 in every reachable
\* state, in particular whenever advance is called.
C12_DtNonNegative ==
    /\ [](ig.dt >= 0)
    /\ [][(last'.op = "VelocityVerlet.dt" /\ last'.args[1] < 0) =>
             (last'.outcome = "ValueError" /\ ig' = ig)]_vars

\* a rejected assignment of -1 after dt had been set to 1
C12_Witness ==
    /\ last.op = "VelocityVerlet.dt"
    /\ last.args[1] < 0
    /\ last.outcome = "ValueError"
    /\ ig.dt = 1

\* the value assigned by the most recent call of a setter, and the same one
\* step ahead
Assigned == last.args[1]
AssignedNext == last'.args[1]

\* C13 as claimed: assigning to positions, images, velocities or forces a
\* value whose own shape is not exactly (N,3), or to energies one whose shape
\* is not exactly (N,), fails with TypeError and changes nothing; assigning
\* None to velocities, energies or forces succeeds and unsets the attribute.
C13_ExactShapeOrTypeError ==
    [][/\ (last'.op \in {"State.positions", "State.images"}
             /\ Shape(AssignedNext) # <<state.N, 3>>)
          => (last'.outcome = "TypeError" /\ state' = state)
       /\ (last'.op \in {"State.velocities", "State.forces"}
             /\ ~IsNone(AssignedNext)
             /\ Shape(Val(AssignedNext)) # <<state.N, 3>>)
          => (last'.outcome = "TypeError" /\ state' = state)
       /\ (last'.op = "State.energies"
             /\ ~IsNone(AssignedNext)
             /\ Shape(Val(AssignedNext)) # <<state.N>>)
          => (last'.outcome = "TypeError" /\ state' = state)
       /\ (last'.op = "State.velocities" /\ IsNone(AssignedNext))
          => (last'.outcome = "ok" /\ IsNone(state'.velocities))
       /\ (last'.op = "State.energies" /\ IsNone(AssignedNext))
          => (last'.outcome = "ok" /\ IsNone(state'.energies))
       /\ (last'.op = "State.forces" /\ IsNone(AssignedNext))
          => (last'.outcome = "ok" /\ IsNone(state'.forces))]_vars

\* C13 as amended: the shape that decides is the one after numpy.array has
\* prepended axes of length 1 up to 2 dimensions (1 for energies).
C13_PromotedShapeOrTypeError ==
    [][/\ (last'.op \in {"State.positions", "State.images"}
             /\ Shape(np_array(AssignedNext, 2)) # <<state.N, 3>>)
          => (last'.outcome = "TypeError" /\ state' = state)
       /\ (last'.op \in {"State.velocities", "State.forces"}
             /\ ~IsNone(AssignedNext)
             /\ Shape(np_array(Val(AssignedNext), 2)) # <<state.N, 3>>)
          => (last'.outcome = "TypeError" /\ state' = state)
       /\ (last'.op = "State.energies"
             /\ ~IsNone(AssignedNext)
             /\ Shape(np_array(Val(AssignedNext), 1)) # <<state.N>>)
          => (last'.outcome = "TypeError" /\ state' = state)
       /\ (last'.op = "State.velocities" /\ IsNone(AssignedNext))
          => (last'.outcome = "ok" /\ IsNone(state'.velocities))
       /\ (last'.op = "State.energies" /\ IsNone(AssignedNext))
          => (last'.outcome = "ok" /\ IsNone(state'.energies))
       /\ (last'.op = "State.forces" /\ IsNone(AssignedNext))
          => (last'.outcome = "ok" /\ IsNone(state'.forces))]_vars

\* a forces array of the wrong shape was rejected and the forces assigned
\* before it are still there
C13_Witness ==
    /\ last.op = "State.forces"
    /\ ~IsNone(Assigned)
    /\ last.outcome = "TypeError"
    /\ ~IsNone(state.forces)

\* positions and images are (N,3); velocities and forces are None or (N,3);
\* energies is None or (N,)
StateShapes ==
    /\ Shape2(state.positions) = <<state.N, 3>>
    /\ Shape2(state.images) = <<state.N, 3>>
    /\ IsNone(state.velocities) \/ Shape2(Val(state.velocities)) = <<state.N, 3>>
    /\ IsNone(state.forces) \/ Shape2(Val(state.forces)) = <<state.N, 3>>
    /\ IsNone(state.energies) \/ Shape1(Val(state.energies)) = <<state.N>>

\* a State straight out of its constructor
FreshState ==
    /\ state.positions = Zeros(state.N)
    /\ state.images = Zeros(state.N)
    /\ IsNone(state.velocities)
    /\ IsNone(state.energies)
    /\ IsNone(state.forces)

\* C14: in every reachable state of a State, positions and images have shape
\* (N,3), velocities and forces are unset or (N,3), energies is unset or (N,);
\* N never changes; a freshly constructed State has zero positions and images
\* and unset velocities, energies and forces.
C14_StateShapeInvariant ==
    /\ [](StateShapes /\ (last.op = "init" => FreshState))
    /\ [][state'.N = state.N]_vars

\* every optional attribute is set and the last assignment was rejected
C14_Witness ==
    /\ last.op = "State.energies"
    /\ last.outcome = "TypeError"
    /\ ~IsNone(state.velocities)
    /\ ~IsNone(state.energies)
    /\ ~IsNone(state.forces)
    /\ state.positions # Zeros(state.N)

\* every Box has three edge lengths, none of them <= 0
BoxesValid ==
    \A b \in BoxIds :
        /\ Len(boxes[b]) = 3
        /\ \A a \in Axes : ~(boxes[b][a] <= 0)

\* the elements of a value assigned to Box.L
Elements(value) == IF value.ndim = 0 THEN <<value.data>> ELSE value.data

\* C15 as claimed: Box.L is a 3-element vector of positive elements in every
\* reachable state; a scalar broadcasts to a cube; a value that is neither a
\* scalar nor 3-element raises TypeError; a value with an element <= 0 raises
\* ValueError; a rejected assignment leaves L as it was.
C15_ScalarOrThreeElements ==
    /\ []BoxesValid
    /\ [][last'.op = "Box.L" =>
          LET b     == last'.args[1]
              value == last'.args[2]
              fits  == value.ndim = 0 \/ Shape(value) = <<3>>
              bad   == \E k \in 1..Len(Elements(value)) :
                          Elements(value)[k] <= 0
          IN  /\ ~fits => last'.outcome = "TypeError"
              /\ (fits /\ bad) => last'.outcome = "ValueError"
              /\ (fits /\ ~bad) => last'.outcome = "ok"
              /\ (value.ndim = 0 /\ ~bad) =>
                    boxes'[b] = <<value.data, value.data, value.data>>
              /\ last'.outcome # "ok" => boxes' = boxes]_vars

\* C15 as amended: the shape that decides is the one after
\* numpy.array(value, ndmin=1); shape (1,), a scalar or a one-element
\* sequence, broadcasts to a cube, any shape other than (1,) and (3,) raises
\* TypeError.
C15_OneOrThreeElements ==
    /\ []BoxesValid
    /\ [][last'.op = "Box.L" =>
          LET b     == last'.args[1]
              value == last'.args[2]
              v     == np_array(value, 1)
              fits  == Shape(v) = <<1>> \/ Shape(v) = <<3>>
              bad   == \E k \in 1..Len(v.data) : v.data[k] <= 0
          IN  /\ ~fits => last'.outcome = "TypeError"
              /\ (fits /\ bad) => last'.outcome = "ValueError"
              /\ (fits /\ ~bad) => last'.outcome = "ok"
              /\ (Shape(v) = <<1>> /\ ~bad) =>
                    boxes'[b] = <<v.data[1], v.data[1], v.data[1]>>
              /\ (Shape(v) = <<3>> /\ ~bad) => boxes'[b] = v.data
              /\ last'.outcome # "ok" => boxes' = boxes]_vars

\* a one-element list was assigned and the box is a cube
C15_Witness ==
    /\ last.op = "Box.L"
    /\ last.args[2] = List1(<<10>>)
    /\ last.outcome = "ok"
    /\ boxes[last.args[1]] = <<10, 10, 10>>

\* a non-integer counter is refused with TypeError, at construction and at
\* assignment
NonIntegerCounterRefused ==
    /\ \A c \in CounterInputs :
          ~c.isint => State_init(1, 1, 1, c).outcome = "TypeError"
    /\ (last.op = "State.counter" /\ ~Assigned.isint)
          => last.outcome = "TypeError"

\* C16 as claimed: State.counter is a non-negative integer in every reachable
\* state, and a non-integer value raises TypeError at construction and at
\* assignment.
C16_CounterNonNegative ==
    /\ state.counter \in Nat
    /\ NonIntegerCounterRefused

\* C16 as amended: State.counter is an integer in every reachable state; a
\* non-integer value raises TypeError and leaves the counter as it was; every
\* integer, negative ones included, is accepted and stored.
C16_CounterInteger ==
    /\ [](/\ state.counter \in Int
          /\ NonIntegerCounterRefused
          /\ \A c \in CounterInputs :
                c.isint => /\ State_init(1, 1, 1, c).outcome = "ok"
                           /\ State_init(1, 1, 1, c).state.counter = c.val
          /\ (last.op = "State.counter" /\ Assigned.isint)
                => (last.outcome = "ok" /\ state.counter = Assigned.val))
    /\ [][(last'.op = "State.counter" /\ ~AssignedNext.isint)
             => state' = state]_vars

\* a negative integer was assigned and is stored
C16_Witness ==
    /\ last.op = "State.counter"
    /\ Assigned.isint
    /\ last.outcome = "ok"
    /\ state.counter = -1

\* C17: state.box is the Box object given at construction or assigned later:
\* assigning a Box stores that very object, assigning anything else raises
\* TypeError and keeps the old box, and a reassignment of the L of the Box the
\* State refers to is what state.box.L then reads (a reassignment of the L of
\* another Box is not).
C17_BoxByReference ==
    /\ [](last.op = "init" => state.box = 1)
    /\ [][/\ (last'.op = "State.box" /\ AssignedNext \in BoxIds)
             => (last'.outcome = "ok" /\ state'.box = AssignedNext)
          /\ (last'.op = "State.box" /\ AssignedNext \notin BoxIds)
             => (last'.outcome = "TypeError" /\ state' = state)
          /\ (last'.op = "Box.L" /\ last'.outcome = "ok"
                /\ last'.args[1] = state.box)
             => LET v == np_array(last'.args[2], 1)
                IN  StateL' = IF Shape(v) = <<1>>
                              THEN <<v.data[1], v.data[1], v.data[1]>>
                              ELSE v.data
          /\ (last'.op = "Box.L" /\ last'.args[1] # state.box)
             => StateL' = StateL]_vars

\* the L of the Box the State refers to was reassigned to (10,15,20), and
\* that is what state.box.L reads
C17_Witness ==
    /\ last.op = "Box.L"
    /\ last.outcome = "ok"
    /\ last.args[1] = state.box
    /\ last.args[2] = List1(<<10, 15, 20>>)
    /\ StateL = <<10, 15, 20>>

\* C18: after every advance the stored forces and energies are what
\* potential.compute returns for the stored positions, and every stored
\* position coordinate lies in [0, L).
C18_AdvanceStoresForcesAtNewPositions ==
    [][last'.op = "advance" =>
          /\ last'.outcome = "ok"
          /\ ~IsNone(state'.forces)
          /\ ~IsNone(state'.energies)
          /\ Val(state'.forces) = Potential_compute(ig.potential, state').ret.f
          /\ Val(state'.energies) = Potential_compute(ig.potential, state').ret.u
          /\ \A i \in 1..state.N, a \in Axes :
                /\ state'.positions[i][a] >= 0
                /\ state'.positions[i][a] < StateL'[a]]_vars

\* the operation name recorded for state.<attr> = value
SetterOp(attr) == "State." \o attr

\* C19 (as stated): after an attribute of the State is assigned from the
\* caller's array x, an in-place modification of x does not change the array
\* the State stores, and an in-place modification of the State's array does
\* not change x
C19_ExclusiveOwnership ==
    [][ /\ last'.op = "x[0] = v" =>
              \A attr \in caller.from : state'[attr] = state[attr]
        /\ (last'.op = "state.attr[0] = v" /\ last'.args[1] \in caller.from) =>
              caller'.arr = caller.arr ]_vars

\* C19 (amended): an accepted assignment of a list stores a copy, an accepted
\* assignment of a float64 array x stores x itself; an in-place modification
\* of x leaves every attribute that is not x unchanged and shows in every
\* attribute that is x; an in-place modification of an attribute's array
\* shows in x exactly when the attribute is x
C19_OwnedUnlessSameArray ==
    [][ /\ \A attr \in AttrNames :
              (last'.op = SetterOp(attr) /\ last'.outcome = "ok") =>
                  LET value == IF attr \in OptionalAttrs
                               THEN Val(last'.args[1]) ELSE last'.args[1]
                  IN  /\ value.kind = "list" => attr \notin caller'.alias
                      /\ (value.kind = "ndarray" /\ value = caller.arr) =>
                            attr \in caller'.alias
        /\ last'.op = "x[0] = v" =>
              \A attr \in AttrNames :
                  IF attr \in caller.alias
                  THEN GetData(state', attr) = caller'.arr.data
                  ELSE state'[attr] = state[attr]
        /\ last'.op = "state.attr[0] = v" =>
              IF last'.args[1] \in caller.alias
              THEN caller'.arr.data = GetData(state', last'.args[1])
              ELSE caller' = caller ]_vars

\* x, a float64 array, was assigned to positions and its list to forces; after
\* x[0] = v positions holds the new row and forces the old one
C19_Witness ==
    /\ last.op = "x[0] = v"
    /\ "positions" \in caller.alias
    /\ state.positions = caller.arr.data
    /\ state.positions[1] = NewRow
    /\ ~IsNone(state.forces)
    /\ "forces" \notin caller.alias
    /\ Val(state.forces) = <<<<1, 1, 1>>, <<2, 2, 2>>>>

====
